---------------------------- MODULE Spec2Model ----------------------------
(***************************************************************************)
(* A model of meegnobis/utils.py: convolve (both strategies and the numpy  *)
(* version dispatch), moving_average, _npairs and _get_unique_targets.     *)
(*                                                                         *)
(* Numbers are exact rationals [num, den] in lowest terms.  The inputs are *)
(* integers and halves, for which the float arithmetic of the code is      *)
(* exact, except for the filter weights 1/nsamples, whose rounding is not  *)
(* modelled.  A call either returns a value or raises an exception; numpy  *)
(* primitives raise where numpy does (empty operands of np.convolve, no    *)
(* array to stack, no slice to iterate over).                              *)
(***************************************************************************)
EXTENDS Integers, Sequences, FiniteSets, TLC

VARIABLES np_version, pc, fn, args, heap, ret

vars == <<np_version, pc, fn, args, heap, ret>>

---------------------------------------------------------------------------
(* Bounds of the model *)

\* largest length of one axis of an input array
MaxAxis == 2
\* largest number of elements of an input array
MaxCells == 4
\* largest length of a filter passed to convolve
MaxFilt == 2
\* twindow ranges over 1/2 s .. MaxTwTicks/2 s
MaxTwTicks == 4
\* largest number of elements of the data of an epoch
MaxEpochCells == 8
\* n_items ranges over -MaxItems .. MaxItems
MaxItems == 6
\* largest length of a label sequence
MaxTargets == 3

\* the dimensionality ceiling of the manual strategy
MaxManualNdim == 3

\* values of the elements of input arrays and filters
Values == {0, 1}
\* sampling frequencies in Hz
SFreqs == {1, 2}
\* label values
Labels == {1, 2, 3}
\* numpy versions (major, minor, patch) the module may be imported under
Versions == {<<1, 9, 0>>, <<1, 11, 3>>, <<1, 12, 0>>, <<1, 20, 0>>,
             <<2, 0, 0>>, <<10, 0, 0>>}

---------------------------------------------------------------------------
(* Exact rational arithmetic *)

RECURSIVE GCD(_, _)
GCD(a, b) == IF b = 0 THEN a ELSE GCD(b, a % b)

Abs(n) == IF n < 0 THEN -n ELSE n

Rat(n, d) ==
    IF d = 1 THEN [num |-> n, den |-> 1]
    ELSE LET g == GCD(Abs(n), Abs(d))
             s == IF d < 0 THEN -1 ELSE 1
         IN [num |-> s * (n \div g), den |-> s * (d \div g)]

RInt(n) == [num |-> n, den |-> 1]
RAdd(p, q) == Rat(p.num * q.den + q.num * p.den, p.den * q.den)
RMul(p, q) == Rat(p.num * q.num, p.den * q.den)
RSub(p, q) == Rat(p.num * q.den - q.num * p.den, p.den * q.den)
RDiv(p, q) == Rat(p.num * q.den, p.den * q.num)
RGt(p, q) == p.num * q.den > q.num * p.den
\* np.ceil
RCeil(p) == -((-p.num) \div p.den)
\* int(): truncation towards zero
RTrunc(p) == IF p.num >= 0 THEN p.num \div p.den ELSE -((-p.num) \div p.den)

RECURSIVE RSum(_)
RSum(s) == IF s = <<>> THEN RInt(0) ELSE RAdd(Head(s), RSum(Tail(s)))

---------------------------------------------------------------------------
(* Outcomes of a call: a returned value or a raised exception.  nconv is   *)
(* the number of calls of np.convolve made.                                *)

NoValue == <<>>
Return(v, n) == [exc |-> "None", msg |-> "", fmt |-> <<>>, val |-> v, nconv |-> n]
\* an exception of type e with message m, formatted with the values a
RaiseFmt(e, m, a, n) == [exc |-> e, msg |-> m, fmt |-> a, val |-> NoValue, nconv |-> n]
Raise(e, m, n) == RaiseFmt(e, m, <<>>, n)
Returned(o) == o.exc = "None"

RECURSIVE SumTo(_, _)
SumTo(f, k) == IF k = 0 THEN 0 ELSE f[k] + SumTo(f, k - 1)

\* A loop over the calls outs[1], outs[2], ...: it stops at the first one
\* that raises, else it gives the list of the values returned.
Gather(outs) ==
    LET bad == {i \in DOMAIN outs : ~Returned(outs[i])}
        cnt == [i \in DOMAIN outs |-> outs[i].nconv]
    IN IF bad = {}
       THEN Return([i \in DOMAIN outs |-> outs[i].val], SumTo(cnt, Len(outs)))
       ELSE LET f == CHOOSE i \in bad : \A j \in bad : i <= j
            IN Raise(outs[f].exc, outs[f].msg, SumTo(cnt, f))

---------------------------------------------------------------------------
(* Arrays: a shape and the elements in row-major order *)

RECURSIVE Prod(_)
Prod(s) == IF s = <<>> THEN 1 ELSE Head(s) * Prod(Tail(s))

Array(sh, d) == [shape |-> sh, data |-> d]
Ndim(a) == Len(a.shape)
LastAxis(a) == a.shape[Len(a.shape)]
Leading(a) == SubSeq(a.shape, 1, Len(a.shape) - 1)
\* the s-th 1-D slice along the last axis, in row-major order of the leading axes
Slice(a, s) ==
    Array(<<LastAxis(a)>>, SubSeq(a.data, (s - 1) * LastAxis(a) + 1, s * LastAxis(a)))
\* the i-th sub-array along the first axis (for array0 in array)
SubArray(a, i) ==
    LET sz == Prod(Tail(a.shape))
    IN Array(Tail(a.shape), SubSeq(a.data, (i - 1) * sz + 1, i * sz))

RECURSIVE Concat(_)
Concat(ss) == IF ss = <<>> THEN <<>> ELSE Head(ss) \o Concat(Tail(ss))


---------------------------------------------------------------------------
(* numpy primitives, as the code calls them *)

\* np.convolve(a, v), mode 'full', of two 1-D arrays
NpConvolve(a0, v0) ==
    LET swap == Len(v0.data) > Len(a0.data)
        a == IF swap THEN v0.data ELSE a0.data
        v == IF swap THEN a0.data ELSE v0.data
        n == Len(a)
        m == Len(v)
    IN IF n = 0 THEN Raise("ValueError", "a cannot be empty", 1)
       ELSE IF m = 0 THEN Raise("ValueError", "v cannot be empty", 1)
       ELSE Return(Array(<<n + m - 1>>,
                [k \in 1..(n + m - 1) |->
                    RSum([i \in 1..m |->
                        IF k - i + 1 >= 1 /\ k - i + 1 <= n
                        THEN RMul(a[k - i + 1], v[i]) ELSE RInt(0)])]), 1)

\* a faulty variant: the last len(x) elements, res[-len(x):]
TruncateTail(res, x) ==
    LET k == IF Len(x.data) < Len(res.data) THEN Len(x.data) ELSE Len(res.data)
    IN Array(<<k>>, SubSeq(res.data, Len(res.data) - k + 1, Len(res.data)))

\* res[:len(x)] of a 1-D array
Truncate(res, x) ==
    LET k == IF Len(x.data) < Len(res.data) THEN Len(x.data) ELSE Len(res.data)
    IN Array(<<k>>, SubSeq(res.data, 1, k))

\* np.stack(arrays) along a new first axis
NpStack(arrays) ==
    IF arrays = <<>>
    THEN Raise("ValueError", "need at least one array to stack", 0)
    ELSE Return(Array(<<Len(arrays)>> \o arrays[1].shape,
                      Concat([i \in DOMAIN arrays |-> arrays[i].data])), 0)

\* np.transpose(data, [1, 0, 2]) of a 3-D array
Transpose102(a) ==
    LET s0 == a.shape[1]
        s1 == a.shape[2]
        s2 == a.shape[3]
    IN Array(<<s1, s0, s2>>,
             [x \in 1..(s0 * s1 * s2) |->
                LET k == (x - 1) % s2
                    i == ((x - 1) \div s2) % s0
                    j == ((x - 1) \div s2) \div s0
                IN a.data[(i * s1 + j) * s2 + k + 1]])

---------------------------------------------------------------------------
(* convolve *)

\* _conv(array, filt) of a 1-D array
_conv(array, filt) ==
    LET res == NpConvolve(array, filt)
    IN IF Returned(res) THEN Return(Truncate(res.val, array), res.nconv) ELSE res

\* lambda x, y: np.convolve(x, y)[..., :len(x)]
ConvLambda(x, y) ==
    LET full == NpConvolve(x, y)
    IN IF Returned(full) THEN Return(Truncate(full.val, x), full.nconv) ELSE full

\* np.vectorize(..., signature='(n),(m)->(k)')(array, filt): the loop over
\* np.ndindex of the leading axes
ConvolveVectorized(array, filt) ==
    LET L == Prod(Leading(array))
        g == Gather([s \in 1..L |-> ConvLambda(Slice(array, s), filt)])
    IN IF L = 0
       THEN Raise("ValueError",
                  "cannot call vectorize on size 0 inputs unless otypes is set", 0)
       ELSE IF ~Returned(g) THEN g
       ELSE Return(Array(Leading(array) \o g.val[1].shape,
                         Concat([s \in 1..L |-> g.val[s].data])), g.nconv)

\* a faulty variant: np.apply_along_axis(conv, 0, array0), the wrong axis
ApplyAlongAxis0(array0, filt) ==
    LET rows == array0.shape[1]
        cols == array0.shape[2]
        g == Gather([j \in 1..cols |->
                _conv(Array(<<rows>>, [i \in 1..rows |-> array0.data[(i - 1) * cols + j]]),
                      filt)])
    IN IF cols = 0
       THEN Raise("ValueError",
                  "Cannot apply_along_axis when any iteration dimensions are 0", 0)
       ELSE IF ~Returned(g) THEN g
       ELSE Return(Array(g.val[1].shape \o <<cols>>,
                         [x \in 1..(rows * cols) |->
                            g.val[((x - 1) % cols) + 1].data[((x - 1) \div cols) + 1]]),
                   g.nconv)

\* np.apply_along_axis(conv, 1, array0) of a 2-D array0
ApplyAlongAxis1(array0, filt) ==
    LET rows == array0.shape[1]
        g == Gather([i \in 1..rows |-> _conv(Slice(array0, i), filt)])
    IN IF rows = 0
       THEN Raise("ValueError",
                  "Cannot apply_along_axis when any iteration dimensions are 0", 0)
       ELSE IF ~Returned(g) THEN g
       ELSE Return(Array(<<rows>> \o g.val[1].shape,
                         Concat([i \in 1..rows |-> g.val[i].data])), g.nconv)

\* the message of the ValueError of the dimensionality check
TooManyDims == "arrays with more than 3 dimensions under numpy < 1.12.0"

\* a faulty variant: the dimensionality check dropped
ConvolveManualNoCeiling(array, filt) == ConvolveVectorized(array, filt)

\* the else branch of convolve
ConvolveManual(array, filt) ==
    IF Ndim(array) > MaxManualNdim THEN Raise("ValueError", TooManyDims, 0)
    ELSE IF Ndim(array) = 1 THEN _conv(array, filt)
    ELSE LET g == Gather([i \in 1..array.shape[1] |->
                    LET array0 == SubArray(array, i)
                    IN IF Ndim(array0) = 1 THEN _conv(array0, filt)
                       ELSE ApplyAlongAxis1(array0, filt)])
             st == NpStack(g.val)
         IN IF ~Returned(g) THEN g
            ELSE IF ~Returned(st) THEN Raise(st.exc, st.msg, g.nconv)
            ELSE Return(st.val, g.nconv)

---------------------------------------------------------------------------
(* the version test: a comparison of strings *)

Digit(d) == <<"0", "1", "2", "3", "4", "5", "6", "7", "8", "9">>[d + 1]
\* str(n) for 0 <= n < 100
Str(n) == IF n < 10 THEN <<Digit(n)>> ELSE <<Digit(n \div 10), Digit(n % 10)>>
\* np.__version__ of the release v
VersionString(v) == Str(v[1]) \o <<".">> \o Str(v[2]) \o <<".">> \o Str(v[3])
\* ord(c)
Ord(c) == IF c = "." THEN 46
          ELSE 47 + (CHOOSE d \in 1..10 : Digit(d - 1) = c)

\* a < b for Python strings: lexicographic by code point
RECURSIVE StrLess(_, _)
StrLess(a, b) ==
    IF b = <<>> THEN FALSE
    ELSE IF a = <<>> THEN TRUE
    ELSE IF Ord(Head(a)) # Ord(Head(b)) THEN Ord(Head(a)) < Ord(Head(b))
    ELSE StrLess(Tail(a), Tail(b))

MinVersion == <<"1", ".", "1", "2", ".", "0">>

\* np.__version__ >= '1.12.0'
UseVectorize(version) == ~StrLess(version, MinVersion)

convolve(version, array, filt) ==
    IF UseVectorize(version) THEN ConvolveVectorized(array, filt)
    ELSE ConvolveManual(array, filt)

---------------------------------------------------------------------------
(* moving_average: epochs are objects of a heap, named by their address *)

\* an mne.Epochs object: _data is (epochs, channels, times)
Epochs(data, sfreq) ==
    [_data |-> data, sfreq |-> RInt(sfreq),
     times |-> [i \in 1..LastAxis(data) |-> Rat(i - 1, sfreq)]]

\* a faulty variant: epoch_ = epoch, no copy
EpochAlias(h, ref) == [heap |-> h, ref |-> ref]

\* epoch.copy(): a new object, equal to the one at address ref
EpochCopy(h, ref) == [heap |-> Append(h, h[ref]), ref |-> Len(h) + 1]

\* a faulty variant: nsamples >= len(epoch.times)
WindowTooLongGe(nsamples, ntimes) == nsamples >= ntimes
\* a faulty variant: nsamples > len(epoch.times) + 1
WindowTooLongLate(nsamples, ntimes) == nsamples > ntimes + 1

\* nsamples > len(epoch.times)
WindowTooLong(nsamples, ntimes) == nsamples > ntimes

\* a faulty variant: np.ones(int(nsamples)), not normalised
BoxcarOnes(nsamples) == Array(<<nsamples>>, [i \in 1..nsamples |-> RInt(1)])

\* np.ones(int(nsamples)) / nsamples
Boxcar(nsamples) ==
    Array(<<nsamples>>, [i \in 1..nsamples |-> RDiv(RInt(1), RInt(nsamples))])

WindowMsg == "Cannot compute moving average with time window {0} and epoch length {1}"

\* moving_average(epoch, twindow) in the heap h: the heap after the call and
\* its outcome (the address of the new object, or the exception)
moving_average(h, epoch, twindow, version) ==
    LET cp == EpochCopy(h, epoch)
        h1 == cp.heap
        epoch_ == cp.ref
        times == h1[epoch].times
        nsamples == RCeil(RMul(twindow, h1[epoch].sfreq))
        filt == Boxcar(nsamples)
        data == Transpose102(h1[epoch_]._data)
        conv == convolve(version, data, filt)
    IN IF WindowTooLong(nsamples, Len(times))
       THEN [heap |-> h1,
             out |-> RaiseFmt("ValueError",
                        WindowMsg,
                        <<twindow, RSub(times[Len(times)], times[1])>>, 0)]
       ELSE IF ~Returned(conv) THEN [heap |-> h1, out |-> conv]
       ELSE [heap |-> [h1 EXCEPT ![epoch_]._data = Transpose102(conv.val)],
             out |-> Return(epoch_, conv.nconv)]

---------------------------------------------------------------------------
(* _npairs and _get_unique_targets *)

\* a faulty variant: the diagonal left out
NpairsNoDiagonal(n_items) ==
    IF n_items < 2
    THEN RaiseFmt("ValueError", "More than two items required, passed {0}",
                  <<n_items>>, 0)
    ELSE Return(RTrunc(RDiv(RInt(n_items * (n_items - 1)), RInt(2))), 0)

_npairs(n_items) ==
    IF n_items < 2
    THEN RaiseFmt("ValueError", "More than two items required, passed {0}",
                  <<n_items>>, 0)
    ELSE Return(RTrunc(RAdd(RDiv(RInt(n_items * (n_items - 1)), RInt(2)),
                            RInt(n_items))), 0)

Range(s) == {s[i] : i \in DOMAIN s}

\* sorted(S) of a set of numbers
RECURSIVE Sorted(_)
Sorted(S) ==
    IF S = {} THEN <<>>
    ELSE LET m == CHOOSE x \in S : \A y \in S : x <= y
         IN <<m>> \o Sorted(S \ {m})

\* np.unique(ar): the sorted unique elements
NpUnique(ar) == Sorted(Range(ar))

\* a faulty variant: the union of the two label sets
GetUniqueTargetsUnion(targets_train, targets_test) ==
    Return(Sorted(Range(targets_train) \cup Range(targets_test)), 0)

_get_unique_targets(targets_train, targets_test) ==
    LET unique_targets_train == NpUnique(targets_train)
        unique_targets_test == NpUnique(targets_test)
    IN Return(Sorted(Range(unique_targets_train) \cap Range(unique_targets_test)), 0)

---------------------------------------------------------------------------
(* The inputs *)

Shapes(nd) == {s \in [1..nd -> 0..MaxAxis] : Prod(s) <= MaxCells}
ArraysOfShape(s) == {Array(s, d) : d \in [1..Prod(s) -> {RInt(v) : v \in Values}]}
\* arrays of 1 .. MaxManualNdim + 1 dimensions
InputArrays ==
    UNION {ArraysOfShape(s) : s \in UNION {Shapes(nd) : nd \in 1..(MaxManualNdim + 1)}}
\* non-empty 1-D filters
Filters == UNION {ArraysOfShape(<<m>>) : m \in 1..MaxFilt}
\* epochs of at least one time sample
EpochShapes ==
    {s \in [1..3 -> 0..MaxAxis] : s[3] >= 1 /\ Prod(s) <= MaxEpochCells}
InputEpochs ==
    {Epochs(d, f) : d \in UNION {ArraysOfShape(s) : s \in EpochShapes}, f \in SFreqs}
\* positive time windows, in halves of a second
TWindows == {Rat(k, 2) : k \in 1..MaxTwTicks}
LabelSeqs == UNION {[1..n -> Labels] : n \in 0..MaxTargets}

NoArgs == [none |-> TRUE]
NoRet == Return(NoValue, 0)

---------------------------------------------------------------------------
(* The caller *)

Init ==
    /\ np_version \in {VersionString(v) : v \in Versions}
    /\ pc = "idle"
    /\ fn = "none"
    /\ args = NoArgs
    /\ heap = <<>>
    /\ ret = NoRet

\* the caller builds an epoch
NewEpoch ==
    /\ pc = "idle"
    /\ heap = <<>>
    /\ \E e \in InputEpochs : heap' = <<e>>
    /\ UNCHANGED <<np_version, pc, fn, args, ret>>

CallConvolve ==
    /\ pc = "idle"
    /\ heap = <<>>
    /\ \E array \in InputArrays, filt \in Filters :
          /\ args' = [array |-> array, filt |-> filt]
          /\ ret' = convolve(np_version, array, filt)
    /\ pc' = "done"
    /\ fn' = "convolve"
    /\ UNCHANGED <<np_version, heap>>

CallMovingAverage ==
    /\ pc = "idle"
    /\ Len(heap) = 1
    /\ \E twindow \in TWindows :
          \* the call is evaluated once, r is its result
          \E r \in {moving_average(heap, 1, twindow, np_version)} :
             /\ heap' = r.heap
             /\ ret' = r.out
             /\ args' = [epoch |-> 1, twindow |-> twindow]
    /\ pc' = "done"
    /\ fn' = "moving_average"
    /\ UNCHANGED np_version

CallNpairs ==
    /\ pc = "idle"
    /\ heap = <<>>
    /\ \E n_items \in (-MaxItems)..MaxItems :
          /\ args' = [n_items |-> n_items]
          /\ ret' = _npairs(n_items)
    /\ pc' = "done"
    /\ fn' = "_npairs"
    /\ UNCHANGED <<np_version, heap>>

CallGetUniqueTargets ==
    /\ pc = "idle"
    /\ heap = <<>>
    /\ \E targets_train \in LabelSeqs, targets_test \in LabelSeqs :
          /\ args' = [targets_train |-> targets_train, targets_test |-> targets_test]
          /\ ret' = _get_unique_targets(targets_train, targets_test)
    /\ pc' = "done"
    /\ fn' = "_get_unique_targets"
    /\ UNCHANGED <<np_version, heap>>

\* the caller drops the result and its objects
Done ==
    /\ pc = "done"
    /\ pc' = "idle"
    /\ fn' = "none"
    /\ args' = NoArgs
    /\ heap' = <<>>
    /\ ret' = NoRet
    /\ UNCHANGED np_version

Next ==
    \/ NewEpoch
    \/ CallConvolve
    \/ CallMovingAverage
    \/ CallNpairs
    \/ CallGetUniqueTargets
    \/ Done

Spec == Init /\ [][Next]_vars

---------------------------------------------------------------------------
(* Properties *)

Called(f) == pc = "done" /\ fn = f
NonEmpty(a) == Prod(a.shape) >= 1

\* out is array convolved with filt along the last axis, left-aligned: element
\* t of every slice is the sum of slice[j] * filt[t - j + 1] over j <= t
LeftAligned(array, filt, out) ==
    LET n == LastAxis(array)
        m == Len(filt.data)
    IN /\ out.shape = array.shape
       /\ Len(out.data) = Len(array.data)
       /\ \A s \in 1..Prod(Leading(array)), t \in 1..n :
             out.data[(s - 1) * n + t] =
                RSum([j \in 1..t |->
                        IF t - j + 1 <= m
                        THEN RMul(array.data[(s - 1) * n + j], filt.data[t - j + 1])
                        ELSE RInt(0)])

NSamples == RCeil(RMul(args.twindow, heap[args.epoch].sfreq))
NTimes == Len(heap[args.epoch].times)
Duration == RSub(heap[args.epoch].times[NTimes], heap[args.epoch].times[1])
RaisedWindowError == ret.exc = "ValueError" /\ ret.msg = WindowMsg
ReturnedEpoch == Returned(ret) /\ ret.val \in DOMAIN heap

\* C3 as stated: for every epoch and positive twindow, moving_average raises
\* the invalid-window error exactly when nsamples > number of time samples,
\* and in every other case returns a container and raises nothing.
C3_EveryEpoch ==
    Called("moving_average")
        => IF NSamples > NTimes THEN RaisedWindowError ELSE ReturnedEpoch

\* C3 amended: the same, for every epoch with at least one trial and at
\* least one channel.
C3_WindowErrorExactly ==
    Called("moving_average") /\ NonEmpty(heap[args.epoch]._data)
        => IF NSamples > NTimes
           THEN RaisedWindowError /\ ~Returned(ret)
           ELSE ReturnedEpoch

\* a window one sample longer than the epoch is rejected
C3_Witness ==
    /\ Called("moving_average") /\ NonEmpty(heap[args.epoch]._data)
    /\ NSamples = NTimes + 1
    /\ RaisedWindowError

\* C4 as stated: a twindow greater than the epoch duration (last time minus
\* first time) raises the invalid-window error.  Stated for the epochs
\* with at least one trial and one channel, which are enough to refute it.
C4_LongerThanDuration ==
    Called("moving_average") /\ NonEmpty(heap[args.epoch]._data)
    /\ RGt(args.twindow, Duration)
        => RaisedWindowError

\* C4 amended: a twindow for which twindow * sfreq is greater than the
\* number of time samples raises the invalid-window error, whose message
\* reports twindow and the duration.
C4_LongerThanSamples ==
    Called("moving_average")
    /\ RGt(RMul(args.twindow, heap[args.epoch].sfreq), RInt(NTimes))
        => RaisedWindowError /\ ret.fmt = <<args.twindow, Duration>>

\* a window longer than the samples of an epoch of two samples is rejected
C4_Witness ==
    /\ Called("moving_average")
    /\ NTimes = 2
    /\ RGt(RMul(args.twindow, heap[args.epoch].sfreq), RInt(NTimes))
    /\ RGt(args.twindow, Duration)
    /\ RaisedWindowError

\* out is the causal moving average over ns samples of the data inp: the
\* same shape, and at (trial i, channel j, time t) the sum of inp at
\* (i, j, t - ns + 1 .. t), samples before the first counting as zero,
\* divided by ns
CausalAverage(inp, ns, out) ==
    LET nch == inp.shape[2]
        nt == inp.shape[3]
    IN /\ out.shape = inp.shape
       /\ Len(out.data) = Len(inp.data)
       /\ \A i \in 1..inp.shape[1], j \in 1..nch, t \in 1..nt :
             LET base == ((i - 1) * nch + (j - 1)) * nt
             IN out.data[base + t] =
                   RDiv(RSum([u \in 1..ns |->
                                IF t - u + 1 >= 1 THEN inp.data[base + t - u + 1]
                                ELSE RInt(0)]),
                        RInt(ns))

C6_InputUnchanged ==
    [][pc = "idle" /\ fn' = "moving_average"
          => /\ heap'[args'.epoch] = heap[args'.epoch]
             /\ Returned(ret') => ret'.val # args'.epoch /\ ret'.val \in DOMAIN heap']_vars

\* a call that returned smoothed data that differs from the data passed in
C6_Witness ==
    /\ Called("moving_average") /\ Returned(ret)
    /\ NSamples >= 2
    /\ heap[ret.val]._data # heap[args.epoch]._data

C8_SortedIntersection ==
    Called("_get_unique_targets")
        => /\ Returned(ret)
           /\ \A i \in 1..(Len(ret.val) - 1) : ret.val[i] < ret.val[i + 1]
           /\ Range(ret.val) = Range(args.targets_train) \cap Range(args.targets_test)
           /\ ret.val = _get_unique_targets(args.targets_test, args.targets_train).val

\* two common labels out of inputs that have duplicates, are not sorted and
\* have a label the other lacks
C8_Witness ==
    /\ Called("_get_unique_targets")
    /\ Len(ret.val) = 2
    /\ Len(args.targets_train) = 3 /\ args.targets_train[1] > args.targets_train[2]
    /\ Len(args.targets_test) = 3 /\ args.targets_test[1] = args.targets_test[2]
    /\ Range(args.targets_train) # Range(args.targets_test)

\* C9: under the manual strategy an array of more than 3 dimensions is
\* rejected with the ValueError of the dimensionality check before any
\* slice is convolved and with no result, and no array of 1, 2 or 3
\* dimensions is rejected by that check.
C9_ManualCeiling ==
    Called("convolve") /\ ~UseVectorize(np_version)
        => IF Ndim(args.array) > 3
           THEN /\ ret.exc = "ValueError" /\ ret.msg = TooManyDims
                /\ ret.nconv = 0 /\ ret.val = NoValue
           ELSE ret.msg # TooManyDims

\* a non-empty 4-D array rejected by the manual strategy
C9_Witness ==
    /\ Called("convolve") /\ ~UseVectorize(np_version)
    /\ Ndim(args.array) = 4 /\ Prod(args.array.shape) >= 2
    /\ ret.exc = "ValueError"

\* int(s) of a string of digits
RECURSIVE ParseInt(_, _)
ParseInt(s, acc) ==
    IF s = <<>> THEN acc ELSE ParseInt(Tail(s), 10 * acc + Ord(Head(s)) - 48)

\* s.split('.')
RECURSIVE SplitDots(_, _)
SplitDots(s, cur) ==
    IF s = <<>> THEN <<cur>>
    ELSE IF Head(s) = "." THEN <<cur>> \o SplitDots(Tail(s), <<>>)
    ELSE SplitDots(Tail(s), Append(cur, Head(s)))

\* the version string read as (major, minor, patch)
VersionNumber(s) == [i \in 1..3 |-> ParseInt(SplitDots(s, <<>>)[i], 0)]

\* a >= b, component-wise as integers
VersionAtLeast(a, b) ==
    \/ a[1] > b[1]
    \/ a[1] = b[1] /\ a[2] > b[2]
    \/ a[1] = b[1] /\ a[2] = b[2] /\ a[3] >= b[3]

\* C10: convolve takes the np.vectorize strategy exactly when the numpy
\* version, read as a version number, is at least 1.12.0: an array of more
\* than 3 dimensions is then rejected by the manual strategy exactly under
\* the versions below 1.12.0.
C10_VersionDispatch ==
    Called("convolve")
        => LET numeric == VersionAtLeast(VersionNumber(np_version), <<1, 12, 0>>)
           IN /\ UseVectorize(np_version) <=> numeric
              /\ Ndim(args.array) > 3 => (ret.msg = TooManyDims <=> ~numeric)

===========================================================================
